---- MODULE Spec2Model ----
(***************************************************************************)
(* Model of main.cpp: a GLFW/GLEW program that builds two GLSL programs,   *)
(* sets up a two-attachment framebuffer object and runs a two-pass frame   *)
(* loop.  The program is single threaded; pc is the position of main().    *)
(* Everything the windowing system and the OpenGL driver decide (results   *)
(* of initialisation, object names, compile and link status, undefined     *)
(* texture contents, key state, close requests) is an input chosen with    *)
(* \E.  A second specification, SplitSpec, runs the line splitting of      *)
(* compileShader on every short source text.                               *)
(***************************************************************************)
EXTENDS Integers, Sequences, FiniteSets, TLC

\* ---------------------------------------------------------------- bounds
\* Object names the driver may hand out are 1..MaxName (0 is "no object").
MaxName == 3
\* The frame counter saturates here (the loop itself is not bounded).
MaxFrames == 3
\* Longest source text given to the line splitting.
MaxLen == 4

\* ------------------------------------------------------------ vocabulary
Names == 0..MaxName
Regions == {"inner", "outer"}       \* inside / outside the [-0.5,0.5]^2 square
Blue == <<0, 0, 1, 1>>              \* value quad1FragSource writes
OpaqueBlack == <<0, 0, 0, 1>>
\* Representatives of the unspecified values a texture or buffer may hold.
UndefColours == {<<0, 0, 0, 0>>, <<1, 0, 0, 1>>}
NoExit == 0 - 1                     \* main has not returned
NL == "\n"
Chars == {"a", "b", NL}

VARIABLES
    pc,             \* position of main()
    exitCode,       \* value returned by main, NoExit while running
    initRes,        \* result of glfwInit: "pending", "ok", "fail"
    window,         \* "unset", "null", "open", "destroyed"
    glewRes,        \* result of glewInit: "pending", "ok", "fail"
    build1,         \* outcome of createProgram(quadVertSource, quad1FragSource)
    build2,         \* outcome of createProgram(texVertSource, texFragSource)
    tex,            \* <<tex[0], tex[1]>>, names from glGenTextures
    fb,             \* name from glGenFramebuffers
    texContent,     \* texContent[k][r]: colour of tex[k] in region r
    screen,         \* back buffer of the default framebuffer
    drawFb,         \* GL_DRAW_FRAMEBUFFER binding (0 = default framebuffer)
    fbDrawBuffers,  \* draw-buffer state of the framebuffer object fb
    boundTex,       \* GL_TEXTURE_2D binding of texture unit 0 (0 = none)
    currentProgram, \* program in use (0 = none)
    useArg,         \* argument of the latest glUseProgram of pass A / pass B
    shouldClose,    \* GLFW close flag of the window
    escKey,         \* cached state of GLFW_KEY_ESCAPE (TRUE = pressed)
    escObserved,    \* the key poll of line 279 has seen the key pressed
    inputSeen,      \* the event queue has delivered a key press or close request
    frame,          \* iterations of the loop body started (saturates)
    calls,          \* calls main issued outside the loop body, <<name, arg>>
    src, linesCount, sourceLines, lengths, idx, lineStart, lineLength, i,
    received, spc   \* compileShader's line splitting

mainVars == <<pc, exitCode, initRes, window, glewRes, build1, build2, tex, fb,
              texContent, screen, drawFb, fbDrawBuffers, boundTex,
              currentProgram, useArg, shouldClose, escKey, escObserved,
              inputSeen, frame, calls>>
glVars == <<tex, fb, texContent, screen, drawFb, fbDrawBuffers, boundTex,
            currentProgram, useArg>>
inputVars == <<shouldClose, escKey, escObserved, inputSeen>>
startVars == <<initRes, window, glewRes, build1, build2>>
splitVars == <<src, linesCount, sourceLines, lengths, idx, lineStart,
               lineLength, i, received, spc>>
vars == <<mainVars, splitVars>>

\* ------------------------------------------------------- createProgram
NoBuild == [done |-> FALSE, ret |-> 0, prog |-> 0, linked |-> FALSE,
            vsStatus |-> "none", fsStatus |-> "none", trace |-> <<>>]

\* Variant of CreateProgram that does not test the vertex compile status.
CreateProgram_NoVsCheck(vs, fs, vsOk, fsOk, program, linkOk) ==
    LET trace == <<"glCreateShader(VS)", "glCreateShader(FS)", "compileShader(vs)",
                   "compileShader(fs)", "glCreateProgram", "glAttachShader(vs)",
                   "glAttachShader(fs)", "glLinkProgram">>
        ok == vsOk /\ fsOk /\ linkOk /\ vs # 0 /\ fs # 0 /\ program # 0
    IN  [done |-> TRUE, ret |-> IF ok THEN program ELSE 2,
         prog |-> program, linked |-> ok,
         vsStatus |-> IF vsOk THEN "ok" ELSE "failed",
         fsStatus |-> IF fsOk THEN "ok" ELSE "failed", trace |-> trace]

\* createProgram with the driver's answers as parameters: vs, fs, program are
\* the names glCreateShader / glCreateProgram return, vsOk, fsOk the compile
\* status of the two shaders, linkOk the link status.  ret is the value
\* returned, prog the program object created (0 if none), trace the calls made.
CreateProgram(vs, fs, vsOk, fsOk, program, linkOk) ==
    LET t1 == <<"glCreateShader(VS)">>
        t2 == Append(t1, "glCreateShader(FS)")
        t3 == Append(t2, "compileShader(vs)")
        t4 == Append(t3, "compileShader(fs)")
        t5 == Append(t4, "glCreateProgram")
        t6 == t5 \o <<"glAttachShader(vs)", "glAttachShader(fs)", "glLinkProgram">>
        t7 == t6 \o <<"glDeleteShader(vs)", "glDeleteShader(fs)">>
        R(ret, prog, linked, vst, fst, trace) ==
            [done |-> TRUE, ret |-> ret, prog |-> prog, linked |-> linked,
             vsStatus |-> vst, fsStatus |-> fst, trace |-> trace]
    IN  IF vs = 0 THEN R(2, 0, FALSE, "none", "none", t1)
        ELSE IF fs = 0 THEN R(2, 0, FALSE, "none", "none", t2)
        ELSE IF ~vsOk THEN R(5, 0, FALSE, "failed", "none", t3)
        ELSE IF ~fsOk THEN R(5, 0, FALSE, "ok", "failed", t4)
        ELSE IF program = 0 THEN R(2, 0, FALSE, "ok", "ok", t5)
        ELSE IF ~linkOk THEN R(2, program, FALSE, "ok", "ok", t6)
        ELSE R(program, program, TRUE, "ok", "ok", t7)

\* Names of distinct live shader and program objects differ.
FreshNames(vs, fs, program) ==
    /\ (vs # 0 /\ fs # 0) => vs # fs
    /\ program # 0 => program \notin {vs, fs}

quad1Program == build1.ret
texProgram == build2.ret

\* ----------------------------------------------------------- start of main
\* State of main() at entry.
MainInit ==
    /\ pc = "glfwInit"
    /\ exitCode = NoExit
    /\ initRes = "pending"
    /\ window = "unset"
    /\ glewRes = "pending"
    /\ build1 = NoBuild
    /\ build2 = NoBuild
    /\ tex = <<0, 0>>
    /\ fb = 0
    /\ texContent = [k \in 0..1 |-> [r \in Regions |-> <<0, 0, 0, 0>>]]
    /\ screen = [r \in Regions |-> <<0, 0, 0, 0>>]
    /\ drawFb = 0
    /\ fbDrawBuffers = <<"ATT0", "NONE">>
    /\ boundTex = 0
    /\ currentProgram = 0
    /\ useArg = [A |-> 0, B |-> 0]
    /\ shouldClose = FALSE
    /\ escKey = FALSE
    /\ escObserved = FALSE
    /\ inputSeen = FALSE
    /\ frame = 0
    /\ calls = <<>>

\* Locals of compileShader before the scan, for the source text s.
SplitEntry(s) ==
    /\ src = s
    /\ linesCount = 0
    /\ sourceLines = <<>>
    /\ lengths = <<>>
    /\ idx = 0
    /\ lineStart = 0
    /\ lineLength = 1
    /\ i = 0
    /\ received = <<>>

Init == MainInit /\ SplitEntry(<<>>) /\ spc = "idle"

Call(name, arg) == calls' = Append(calls, <<name, arg>>)

\* Lines 201-204.
GlfwInit ==
    /\ pc = "glfwInit"
    /\ \E ok \in BOOLEAN :
        IF ok
        THEN /\ initRes' = "ok"
             /\ pc' = "createWindow"
             /\ exitCode' = exitCode
             /\ Call("glfwInit", 1)
        ELSE /\ initRes' = "fail"
             /\ pc' = "done"
             /\ exitCode' = 3
             /\ Call("glfwInit", 0)
    /\ UNCHANGED <<window, glewRes, build1, build2, glVars, inputVars, frame, splitVars>>

\* Lines 206-218.
CreateWindow ==
    /\ pc = "createWindow"
    /\ \E w \in {"null", "open"} :
        /\ window' = w
        /\ IF w = "null"
           THEN /\ calls' = calls \o << <<"glfwCreateWindow", 0>>, <<"glfwTerminate", 0>> >>
                /\ pc' = "done"
                /\ exitCode' = 1
           ELSE /\ calls' = calls \o << <<"glfwCreateWindow", 1>>, <<"glfwMakeContextCurrent", 1>> >>
                /\ pc' = "glewInit"
                /\ exitCode' = exitCode
    /\ UNCHANGED <<initRes, glewRes, build1, build2, glVars, inputVars, frame, splitVars>>

\* Variant of GlewInit that returns without glfwTerminate.
GlewInit_NoTerminate ==
    /\ pc = "glewInit"
    /\ \E ok \in BOOLEAN :
        IF ok
        THEN /\ glewRes' = "ok"
             /\ Call("glewInit", 1)
             /\ pc' = "createQuad1"
             /\ exitCode' = exitCode
        ELSE /\ glewRes' = "fail"
             /\ Call("glewInit", 0)
             /\ pc' = "done"
             /\ exitCode' = 2
    /\ UNCHANGED <<initRes, window, build1, build2, glVars, inputVars, frame, splitVars>>

\* Lines 220-225.
GlewInit ==
    /\ pc = "glewInit"
    /\ \E ok \in BOOLEAN :
        IF ok
        THEN /\ glewRes' = "ok"
             /\ Call("glewInit", 1)
             /\ pc' = "createQuad1"
             /\ exitCode' = exitCode
        ELSE /\ glewRes' = "fail"
             /\ calls' = calls \o << <<"glewInit", 0>>, <<"glfwTerminate", 0>> >>
             /\ pc' = "done"
             /\ exitCode' = 2
    /\ UNCHANGED <<initRes, window, build1, build2, glVars, inputVars, frame, splitVars>>

\* Variant of BuildQuad1Program in which main returns the failure value.
BuildQuad1Program_Checked ==
    /\ pc = "createQuad1"
    /\ \E vs, fs, program \in Names, vsOk, fsOk, linkOk \in BOOLEAN :
        /\ FreshNames(vs, fs, program)
        /\ build1' = CreateProgram(vs, fs, vsOk, fsOk, program, linkOk)
    /\ IF build1'.linked
       THEN pc' = "createTex" /\ exitCode' = exitCode /\ calls' = calls
       ELSE pc' = "done" /\ exitCode' = build1'.ret /\ Call("glfwTerminate", 0)
    /\ UNCHANGED <<initRes, window, glewRes, build2, glVars, inputVars,
                   frame, splitVars>>

\* Line 227: the returned value is stored in quad1Program whatever it is.
BuildQuad1Program ==
    /\ pc = "createQuad1"
    /\ \E vs, fs, program \in Names, vsOk, fsOk, linkOk \in BOOLEAN :
        /\ FreshNames(vs, fs, program)
        /\ build1' = CreateProgram(vs, fs, vsOk, fsOk, program, linkOk)
    /\ pc' = "createTex"
    /\ UNCHANGED <<exitCode, initRes, window, glewRes, build2, glVars, inputVars,
                   frame, calls, splitVars>>

\* Line 228.  The program object of the first call, if one was created, is
\* still alive, so the driver does not hand out its name again.
BuildTexProgram ==
    /\ pc = "createTex"
    /\ \E vs, fs, program \in Names, vsOk, fsOk, linkOk \in BOOLEAN :
        /\ FreshNames(vs, fs, program)
        /\ (program # 0 /\ build1.prog # 0) => program # build1.prog
        /\ build2' = CreateProgram(vs, fs, vsOk, fsOk, program, linkOk)
    /\ pc' = "setup"
    /\ UNCHANGED <<exitCode, initRes, window, glewRes, build1, glVars, inputVars,
                   frame, calls, splitVars>>

\* --------------------------------------------------- OpenGL state changes
ClearColor == OpaqueBlack           \* glClearColor(0, 0, 0, 1)
AttName(k) == IF k = 0 THEN "ATT0" ELSE "ATT1"
Enabled(k) == \E loc \in 1..2 : fbDrawBuffers[loc] = AttName(k)
\* The fragment output location routed to attachment k by glDrawBuffers.
LocOf(k) == (CHOOSE loc \in 1..2 : fbDrawBuffers[loc] = AttName(k)) - 1

\* Which linked program a name denotes: the value main keeps in quad1Program
\* or texProgram is a program only if that createProgram call linked one.
ProgramKind(h) ==
    IF h = 0 THEN "none"
    ELSE IF build2.linked /\ h = texProgram THEN "tex"
    ELSE IF build1.linked /\ h = quad1Program THEN "quad1"
    ELSE "invalid"

\* glUseProgram(h): an h that is no program object raises an error and leaves
\* the program in use unchanged.
UseProgram(h) == IF ProgramKind(h) = "invalid" THEN currentProgram ELSE h

\* Variant of Covered without the 0.5 scale.
Covered_Full(kind) == Regions

\* quadVertSource scales the quad by 0.5, texVertSource draws it full size.
Covered(kind) == IF kind = "quad1" THEN {"inner"} ELSE Regions
\* quad1FragSource declares output location 1 only, texFragSource location 0.
WritesLoc(kind, loc) == (kind = "quad1" /\ loc = 1) \/ (kind = "tex" /\ loc = 0)

\* texture(tex, texCoord) on unit 0; u supplies the unspecified values.
Sample(r, u) ==
    IF boundTex = 0 THEN OpaqueBlack
    ELSE IF drawFb # 0 /\ drawFb = fb THEN u[r]     \* feedback loop
    ELSE IF boundTex = tex[1] THEN texContent[0][r]
    ELSE IF boundTex = tex[2] THEN texContent[1][r]
    ELSE OpaqueBlack

FragColour(kind, r, u) ==
    IF kind = "quad1" THEN Blue
    ELSE LET s == Sample(r, u) IN <<s[1], s[2], s[3], 1>>

\* glClear(GL_COLOR_BUFFER_BIT) on the bound draw framebuffer.
Clear ==
    IF drawFb # 0 /\ drawFb = fb
    THEN /\ texContent' = [k \in 0..1 |->
                IF Enabled(k) THEN [r \in Regions |-> ClearColor] ELSE texContent[k]]
         /\ screen' = screen
    ELSE /\ screen' = [r \in Regions |-> ClearColor]
         /\ texContent' = texContent

\* glDrawArrays(GL_TRIANGLES, 0, 6) with the program in use, into the bound
\* draw framebuffer.  Without a program in use the result is unspecified; an
\* enabled draw buffer whose location the shader does not write receives
\* unspecified values.
DrawArrays ==
    LET kind == ProgramKind(currentProgram) IN
    \E cov \in (IF kind = "none" THEN SUBSET Regions ELSE {Covered(kind)}),
       u \in [Regions -> UndefColours] :
        IF drawFb # 0 /\ drawFb = fb
        THEN /\ texContent' = [k \in 0..1 |-> [r \in Regions |->
                    IF r \in cov /\ Enabled(k)
                    THEN IF WritesLoc(kind, LocOf(k)) THEN FragColour(kind, r, u) ELSE u[r]
                    ELSE texContent[k][r]]]
             /\ screen' = screen
        ELSE /\ screen' = [r \in Regions |->
                    IF r \in cov
                    THEN IF WritesLoc(kind, 0) THEN FragColour(kind, r, u) ELSE u[r]
                    ELSE screen[r]]
             /\ texContent' = texContent

\* glDrawBuffers(2, att1) acts on the bound draw framebuffer; the default
\* framebuffer rejects GL_COLOR_ATTACHMENT1.
DrawBuffers == IF drawFb # 0 /\ drawFb = fb THEN <<"NONE", "ATT1">> ELSE fbDrawBuffers

\* ------------------------------------------------------------------ setup
\* glGenTextures and glGenFramebuffers return unused nonzero names.  The
\* program only ever uses that tex[0], tex[1] and 0 differ and that fb is not
\* 0, so the first unused names stand for any the driver may choose.
GenTextures == <<1, 2>>
GenFramebuffer == 1

\* Lines 230-277: vertex array and buffer, two textures with unspecified
\* contents, the framebuffer object with tex[0] and tex[1] attached, and the
\* two asserts (framebuffer complete, no pending GL error), which abort the
\* process when the driver answers otherwise.
Setup ==
    /\ pc = "setup"
    /\ \E c \in [0..1 -> [Regions -> UndefColours]], assertsHold \in BOOLEAN :
        /\ texContent' = c
        /\ pc' = IF assertsHold THEN "loopCheck" ELSE "aborted"
    /\ tex' = GenTextures
    /\ fb' = GenFramebuffer
    /\ boundTex' = 0
    /\ drawFb' = 0
    /\ fbDrawBuffers' = <<"ATT0", "NONE">>
    /\ UNCHANGED <<exitCode, startVars, screen, currentProgram, useArg, inputVars,
                   frame, calls, splitVars>>

\* -------------------------------------------------------------- frame loop
Goto(from, to) == pc = from /\ pc' = to
NextFrame == IF frame < MaxFrames THEN frame + 1 ELSE frame

\* Line 278.
LoopCheck ==
    /\ pc = "loopCheck"
    /\ IF shouldClose
       THEN pc' = "finishing" /\ frame' = frame
       ELSE pc' = "pollKey" /\ frame' = NextFrame
    /\ UNCHANGED <<exitCode, startVars, glVars, inputVars, calls, splitVars>>

\* Variant of PollKey that sees the key but does not request the close.
PollKey_NoClose ==
    /\ Goto("pollKey", "bindFbA")
    /\ escObserved' = (escObserved \/ escKey)
    /\ UNCHANGED <<exitCode, startVars, glVars, shouldClose, escKey, inputSeen, frame,
                   calls, splitVars>>

\* Line 279.
PollKey ==
    /\ Goto("pollKey", "bindFbA")
    /\ shouldClose' = (shouldClose \/ escKey)
    /\ escObserved' = (escObserved \/ escKey)
    /\ UNCHANGED <<exitCode, startVars, glVars, escKey, inputSeen, frame, calls, splitVars>>

\* Line 281.
BindFramebufferA ==
    /\ Goto("bindFbA", "clearA")
    /\ drawFb' = fb
    /\ UNCHANGED <<exitCode, startVars, tex, fb, texContent, screen, fbDrawBuffers,
                   boundTex, currentProgram, useArg, inputVars, frame, calls, splitVars>>

\* Line 282.
ClearA ==
    /\ Goto("clearA", "useA")
    /\ Clear
    /\ UNCHANGED <<exitCode, startVars, tex, fb, drawFb, fbDrawBuffers, boundTex,
                   currentProgram, useArg, inputVars, frame, calls, splitVars>>

\* Line 283.
UseProgramA ==
    /\ Goto("useA", "drawBuffersA")
    /\ currentProgram' = UseProgram(quad1Program)
    /\ useArg' = [useArg EXCEPT !.A = quad1Program]
    /\ UNCHANGED <<exitCode, startVars, tex, fb, texContent, screen, drawFb,
                   fbDrawBuffers, boundTex, inputVars, frame, calls, splitVars>>

\* Line 284.
DrawBuffersA ==
    /\ Goto("drawBuffersA", "drawA")
    /\ fbDrawBuffers' = DrawBuffers
    /\ UNCHANGED <<exitCode, startVars, tex, fb, texContent, screen, drawFb,
                   boundTex, currentProgram, useArg, inputVars, frame, calls, splitVars>>

\* Line 285.
DrawA ==
    /\ Goto("drawA", "bindFbB")
    /\ DrawArrays
    /\ UNCHANGED <<exitCode, startVars, tex, fb, drawFb, fbDrawBuffers, boundTex,
                   currentProgram, useArg, inputVars, frame, calls, splitVars>>

\* Line 287.
BindFramebufferB ==
    /\ Goto("bindFbB", "useB")
    /\ drawFb' = 0
    /\ UNCHANGED <<exitCode, startVars, tex, fb, texContent, screen, fbDrawBuffers,
                   boundTex, currentProgram, useArg, inputVars, frame, calls, splitVars>>

\* Line 288.
UseProgramB ==
    /\ Goto("useB", "bindTexB")
    /\ currentProgram' = UseProgram(texProgram)
    /\ useArg' = [useArg EXCEPT !.B = texProgram]
    /\ UNCHANGED <<exitCode, startVars, tex, fb, texContent, screen, drawFb,
                   fbDrawBuffers, boundTex, inputVars, frame, calls, splitVars>>

\* Lines 289-290.
BindTextureB ==
    /\ Goto("bindTexB", "drawB")
    /\ boundTex' = tex[2]
    /\ UNCHANGED <<exitCode, startVars, tex, fb, texContent, screen, drawFb,
                   fbDrawBuffers, currentProgram, useArg, inputVars, frame, calls, splitVars>>

\* Line 291.
DrawB ==
    /\ Goto("drawB", "unbindTexB")
    /\ DrawArrays
    /\ UNCHANGED <<exitCode, startVars, tex, fb, drawFb, fbDrawBuffers, boundTex,
                   currentProgram, useArg, inputVars, frame, calls, splitVars>>

\* Variant of UnbindTextureB that leaves tex[1] bound.
UnbindTextureB_Skip ==
    /\ Goto("unbindTexB", "swap")
    /\ UNCHANGED <<exitCode, startVars, glVars, inputVars, frame, calls, splitVars>>

\* Line 292.
UnbindTextureB ==
    /\ Goto("unbindTexB", "swap")
    /\ boundTex' = 0
    /\ UNCHANGED <<exitCode, startVars, tex, fb, texContent, screen, drawFb,
                   fbDrawBuffers, currentProgram, useArg, inputVars, frame, calls, splitVars>>

\* Line 295: presents the back buffer.
SwapBuffers ==
    /\ Goto("swap", "pollEvents")
    /\ UNCHANGED <<exitCode, startVars, glVars, inputVars, frame, calls, splitVars>>

\* Line 296: the pending events set the cached key state and may carry a
\* close request, which sets the close flag; nothing here clears the flag.
PollEvents ==
    /\ Goto("pollEvents", "loopCheck")
    /\ \E key, closeRequest \in BOOLEAN :
        /\ escKey' = key
        /\ shouldClose' = (shouldClose \/ closeRequest)
        /\ inputSeen' = (inputSeen \/ key \/ closeRequest)
    /\ UNCHANGED <<exitCode, startVars, glVars, escObserved, frame, calls, splitVars>>

\* --------------------------------------------------------------- shutdown
\* Line 300.
Finishing ==
    /\ Goto("finishing", "deleteProgram")
    /\ Call("print Finishing...", 0)
    /\ UNCHANGED <<exitCode, startVars, glVars, inputVars, frame, splitVars>>

\* Variant of DeleteProgram that deletes both programs.
DeleteProgram_Both ==
    /\ Goto("deleteProgram", "releaseContext")
    /\ calls' = calls \o << <<"glDeleteProgram", quad1Program>>,
                            <<"glDeleteProgram", texProgram>> >>
    /\ UNCHANGED <<exitCode, startVars, glVars, inputVars, frame, splitVars>>

\* Line 301.
DeleteProgram ==
    /\ Goto("deleteProgram", "releaseContext")
    /\ Call("glDeleteProgram", quad1Program)
    /\ UNCHANGED <<exitCode, startVars, glVars, inputVars, frame, splitVars>>

\* Line 302.
ReleaseContext ==
    /\ Goto("releaseContext", "destroyWindow")
    /\ Call("glfwMakeContextCurrent", 0)
    /\ UNCHANGED <<exitCode, startVars, glVars, inputVars, frame, splitVars>>

\* Line 303.
DestroyWindow ==
    /\ Goto("destroyWindow", "terminate")
    /\ Call("glfwDestroyWindow", 1)
    /\ window' = "destroyed"
    /\ UNCHANGED <<exitCode, initRes, glewRes, build1, build2, glVars, inputVars,
                   frame, splitVars>>

\* Lines 304-305.
Terminate ==
    /\ Goto("terminate", "done")
    /\ Call("glfwTerminate", 0)
    /\ exitCode' = 0
    /\ UNCHANGED <<startVars, glVars, inputVars, frame, splitVars>>

Next ==
    \/ GlfwInit \/ CreateWindow \/ GlewInit
    \/ BuildQuad1Program \/ BuildTexProgram \/ Setup
    \/ LoopCheck \/ PollKey
    \/ BindFramebufferA \/ ClearA \/ UseProgramA \/ DrawBuffersA \/ DrawA
    \/ BindFramebufferB \/ UseProgramB \/ BindTextureB \/ DrawB \/ UnbindTextureB
    \/ SwapBuffers \/ PollEvents
    \/ Finishing \/ DeleteProgram \/ ReleaseContext \/ DestroyWindow \/ Terminate

Spec == Init /\ [][Next]_vars

\* ------------------------------------- compileShader: splitting into lines
Sources == UNION {[1..n -> Chars] : n \in 0..MaxLen}
Unset == 0 - 1                      \* array element not yet assigned

\* Text the driver assembles from glShaderSource(shader, count, string, length):
\* for each of the count entries, length[k] characters starting at string[k]
\* (an offset into the source text here).
ShaderSource(text, count, string, length) ==
    LET RECURSIVE Cat(_)
        Cat(k) == IF k = 0 THEN <<>>
                  ELSE Cat(k - 1) \o SubSeq(text, string[k] + 1, string[k] + length[k])
    IN  Cat(count)

SplitInit == MainInit /\ (\E s \in Sources : SplitEntry(s)) /\ spc = "count"

\* Lines 50-58: count the newlines, allocate both arrays, set up the scan.
SplitCount ==
    /\ spc = "count"
    /\ linesCount' = Cardinality({j \in 1..Len(src) : src[j] = NL})
    /\ sourceLines' = [k \in 1..linesCount' |-> Unset]
    /\ lengths' = [k \in 1..linesCount' |-> Unset]
    /\ idx' = 0
    /\ lineStart' = 0
    /\ lineLength' = 1
    /\ i' = 0
    /\ spc' = "scan"
    /\ UNCHANGED <<mainVars, src, received>>

\* Lines 59-68: one iteration of the scan.
SplitScan ==
    /\ spc = "scan"
    /\ i < Len(src)
    /\ IF src[i + 1] = NL
       THEN /\ sourceLines' = [sourceLines EXCEPT ![idx + 1] = lineStart]
            /\ lengths' = [lengths EXCEPT ![idx + 1] = lineLength]
            /\ lineLength' = 1
            /\ lineStart' = i + 1
            /\ idx' = idx + 1
       ELSE /\ lineLength' = lineLength + 1
            /\ UNCHANGED <<sourceLines, lengths, lineStart, idx>>
    /\ i' = i + 1
    /\ UNCHANGED <<mainVars, src, linesCount, received, spc>>

\* Line 70: hand the entries to the driver.
SplitSubmit ==
    /\ spc = "scan"
    /\ i = Len(src)
    /\ received' = ShaderSource(src, linesCount, sourceLines, lengths)
    /\ spc' = "submitted"
    /\ UNCHANGED <<mainVars, src, linesCount, sourceLines, lengths, idx, lineStart,
                   lineLength, i>>

SplitNext == SplitCount \/ SplitScan \/ SplitSubmit

SplitSpec == SplitInit /\ [][SplitNext]_vars

\* ================================================================ claims
Range(f) == {f[j] : j \in DOMAIN f}
Count(name) == Cardinality({j \in DOMAIN calls : calls[j][1] = name})
LoopPcs == {"loopCheck", "pollKey", "bindFbA", "clearA", "useA", "drawBuffersA",
            "drawA", "bindFbB", "useB", "bindTexB", "drawB", "unbindTexB",
            "swap", "pollEvents"}
ShutdownPcs == {"finishing", "deleteProgram", "releaseContext", "destroyWindow",
                "terminate"}
Failed(b) == b.done /\ ~b.linked
CompileFailed(b) == b.vsStatus = "failed" \/ b.fsStatus = "failed"

\* C1: for every source text with N newline characters the splitting hands
\* the driver exactly N entries whose concatenation, each taken with its
\* reported length, is the source text itself, text after the last newline
\* and the case N = 0 included.
C1_SplitReconstructs ==
    spc = "submitted" =>
        /\ linesCount = Cardinality({j \in 1..Len(src) : src[j] = NL})
        /\ Len(sourceLines) = linesCount /\ Len(lengths) = linesCount
        /\ received = src

\* C2: the exit code of main is 0 on clean shutdown, 1 when window creation
\* fails, 2 on loader initialisation failure, link failure or a zero program
\* handle, 3 when glfwInit fails and 5 when a shader fails to compile.
C2_ExpectedExit ==
    IF initRes = "fail" THEN 3
    ELSE IF window = "null" THEN 1
    ELSE IF glewRes = "fail" THEN 2
    ELSE IF CompileFailed(build1) \/ CompileFailed(build2) THEN 5
    ELSE IF Failed(build1) \/ Failed(build2) THEN 2
    ELSE 0
C2_ExitCodes == pc = "done" => exitCode = C2_ExpectedExit

\* C3: each environment failure (glfwInit fails, glfwCreateWindow returns
\* null, glewInit is not OK) ends main with its own nonzero exit code, the
\* frame loop is never entered, and glfwTerminate is called exactly once,
\* as the last call before returning, when glfwInit had succeeded and not at
\* all when glfwInit itself failed.
C3_EnvFailure ==
    LET code == IF initRes = "fail" THEN 3 ELSE IF window = "null" THEN 1 ELSE 2
        other == {3, 1, 2} \ {code}
    IN  (initRes = "fail" \/ window = "null" \/ glewRes = "fail") =>
            /\ pc = "done"
            /\ exitCode = code /\ exitCode # 0 /\ exitCode \notin other
            /\ frame = 0
            /\ build1 = NoBuild /\ build2 = NoBuild
            /\ Count("glfwTerminate") = (IF initRes = "fail" THEN 0 ELSE 1)
            /\ initRes = "ok" => calls[Len(calls)] = <<"glfwTerminate", 0>>
C3_Witness == glewRes = "fail" /\ pc = "done" /\ exitCode = 2

\* C4: once the key poll at the start of an iteration has seen Escape
\* pressed, the close flag is set and stays set, the next loop check leaves
\* the loop, and no iteration body starts after it.
C4_EscapeCloses ==
    [][ /\ shouldClose => shouldClose'
        /\ escObserved' => shouldClose'
        /\ (escObserved /\ pc = "loopCheck") => (pc' = "finishing" /\ frame' = frame)
        /\ (escObserved /\ pc \notin LoopPcs) => pc' \notin LoopPcs ]_vars
C4_Witness == escObserved /\ pc = "finishing" /\ shouldClose

\* C5: when the loop exits on the close condition, shutdown runs to the end
\* in the order: completion notice, glDeleteProgram(quad1Program), clear the
\* current context, destroy the window, glfwTerminate, return 0.  No other
\* glDeleteProgram call is ever issued: texProgram is never deleted.
C5_ShutdownCalls ==
    << <<"print Finishing...", 0>>, <<"glDeleteProgram", quad1Program>>,
       <<"glfwMakeContextCurrent", 0>>, <<"glfwDestroyWindow", 1>>,
       <<"glfwTerminate", 0>> >>
C5_StartCalls ==
    << <<"glfwInit", 1>>, <<"glfwCreateWindow", 1>>, <<"glfwMakeContextCurrent", 1>>,
       <<"glewInit", 1>> >>
C5_Progress ==
    CASE pc = "finishing" -> 0
      [] pc = "deleteProgram" -> 1
      [] pc = "releaseContext" -> 2
      [] pc = "destroyWindow" -> 3
      [] pc = "terminate" -> 4
      [] OTHER -> 5
C6_AllBlue ==
    (~inputSeen /\ pc = "loopCheck") =>
        /\ ~shouldClose
        /\ (frame >= 2 /\ build1.linked /\ build2.linked) =>
                \A r \in Regions : texContent[1][r] = Blue

\* C6 (amended): with no key input and no close request the close flag is
\* false at every loop check.  After each frame, when program A linked,
\* attachment 1 is opaque blue (program A's fragment output) inside the
\* half-size quad only; outside it, from the second frame on, it holds the
\* clear colour, opaque black (0,0,0,1), and the screen pass, when program B
\* linked, shows the same two colours.
C6_BlueQuadOnBlack ==
    /\ (~inputSeen /\ pc = "loopCheck") => ~shouldClose
    /\ (pc = "loopCheck" /\ frame >= 1 /\ build1.linked) =>
            /\ texContent[1]["inner"] = Blue
            /\ frame >= 2 => texContent[1]["outer"] = <<0, 0, 0, 1>>
            /\ (frame >= 2 /\ build2.linked) =>
                    screen = [r \in Regions |-> IF r = "inner" THEN Blue ELSE <<0, 0, 0, 1>>]
C6_Witness ==
    /\ pc = "loopCheck" /\ frame >= 2 /\ ~inputSeen
    /\ build1.linked /\ build2.linked
    /\ texContent[1]["inner"] = Blue /\ texContent[1]["outer"] # Blue

\* C7: createProgram creates and links a program only after both shaders
\* reported compile status true; when either fails to compile it returns 5
\* without creating, attaching to or linking a program, and the fragment
\* shader is not compiled when the vertex shader failed.
C7_Build(b) ==
    LET made == Range(b.trace)
        programCalls == {"glCreateProgram", "glAttachShader(vs)",
                         "glAttachShader(fs)", "glLinkProgram"}
    IN  b.done =>
            /\ (made \cap programCalls # {}) => (b.vsStatus = "ok" /\ b.fsStatus = "ok")
            /\ CompileFailed(b) =>
                    /\ b.ret = 5 /\ ~b.linked /\ b.prog = 0
                    /\ made \cap programCalls = {}
            /\ b.vsStatus = "failed" =>
                    (b.fsStatus = "none" /\ "compileShader(fs)" \notin made)
            /\ b.linked => \E j, k, l \in DOMAIN b.trace :
                    /\ b.trace[j] = "compileShader(vs)" /\ b.trace[k] = "compileShader(fs)"
                    /\ b.trace[l] = "glCreateProgram" /\ j < l /\ k < l
C7_CompileBeforeLink == C7_Build(build1) /\ C7_Build(build2)
C7_Witness == build1.linked /\ build2.done /\ build2.vsStatus = "failed"

\* C8: every write pass A issues to the offscreen framebuffer, the clear and
\* the draw, in every iteration including the first, is issued with the
\* draw-buffer mask {NONE, ATTACHMENT1} in effect, so none writes attachment 0.
C8_MaskAtEveryWrite ==
    pc \in {"clearA", "drawA"} =>
        (drawFb = fb /\ fbDrawBuffers = <<"NONE", "ATT1">> /\ ~Enabled(0))

\* C9: a failing createProgram returns 2 or 5, main does not branch on it:
\* setup and the frame loop follow, glUseProgram and (for program A)
\* glDeleteProgram receive the returned value, and main returns 0.
C9_AfterUse(first) ==
    \/ pc \in ShutdownPcs \cup {"done"}
    \/ pc \in LoopPcs /\ frame >= 2
    \/ pc \in LoopPcs /\ frame = 1 /\ pc \notin first
C9_FailureIgnored ==
    /\ \A b \in {build1, build2} : Failed(b) => b.ret \in {2, 5}
    /\ (Failed(build1) \/ (build2.done /\ ~build2.linked)) =>
            /\ pc = "done" =>
                    /\ exitCode = 0 /\ frame >= 1
                    /\ <<"glDeleteProgram", build1.ret>> \in Range(calls)
            /\ C9_AfterUse({"pollKey", "bindFbA", "clearA", "useA"}) =>
                    useArg.A = build1.ret
            /\ C9_AfterUse({"pollKey", "bindFbA", "clearA", "useA", "drawBuffersA",
                            "drawA", "bindFbB", "useB"}) =>
                    useArg.B = build2.ret
C9_Witness ==
    /\ Failed(build1) /\ pc = "done" /\ exitCode = 0
    /\ useArg.A = 5 /\ <<"glDeleteProgram", 5>> \in Range(calls)

\* C10: in the frame loop tex[1] is never bound to texture unit 0 while the
\* offscreen framebuffer is the draw target: pass A clears and draws with
\* the offscreen framebuffer bound and no texture on unit 0, pass B draws
\* with the default framebuffer bound and tex[1] on unit 0, and tex[0] is
\* never bound.
C10_NoFeedback ==
    pc \in LoopPcs =>
        /\ ~(boundTex = tex[2] /\ drawFb = fb)
        /\ pc \in {"clearA", "useA", "drawBuffersA", "drawA"} => (drawFb = fb /\ boundTex = 0)
        /\ pc = "drawB" => (drawFb = 0 /\ boundTex = tex[2])
        /\ pc \in {"useB", "bindTexB", "drawB", "unbindTexB"} => drawFb # fb
        /\ boundTex # tex[1]
        /\ tex[1] # tex[2] /\ tex[1] # 0 /\ tex[2] # 0 /\ fb # 0
C10_Witness == pc = "drawB" /\ frame >= 2 /\ boundTex = tex[2] /\ drawFb = 0

====
